---- MODULE Spec2Model ----
(***************************************************************************)
(* Model of the conversation-state engine of the WhatsApp bot:             *)
(*   StateManager      (core/state-manager.ts,   src/unnamed/part_001)     *)
(*   MessageHandler    (core/message-handler.ts, src/unnamed/part_003)     *)
(*   startBot          (index.ts,                src/unnamed/part_009)     *)
(*   admin `estados`   (commands/admin.ts,       src/unnamed/part_007)     *)
(*   FormPlugin        (plugins/form/index.ts,   src/unnamed/part_015)     *)
(*                                                                         *)
(* JavaScript runs one callback at a time and a callback only gives up the *)
(* thread at an `await`.  `running` names the handleMessage invocation     *)
(* that holds the thread; every other invocation is either idle, finished  *)
(* or suspended at an await.  UserState objects are shared by reference    *)
(* (getState returns the object stored in the Map), so the store is a map  *)
(* from user to object id plus a heap of objects.                          *)
(***************************************************************************)
EXTENDS Integers, Sequences, FiniteSets, TLC

VARIABLES states, heap, file, commands, started, now, inv, running,
          messagesProcessed, errors, unhandled, events, removedCount,
          sink, saveInterval, proc, exitTimer, boots, pm, mq

\* the process and its surroundings: what states.json holds (`file` is its
\* text when it holds a document), the auto-save timer, the process itself,
\* a pending `setTimeout(() => process.exit(0))`, and the plugin manager
Process == <<sink, saveInterval, proc, exitTimer, boots, pm, mq>>

vars == <<states, heap, file, commands, started, now, inv, running,
          messagesProcessed, errors, unhandled, events, removedCount, Process>>

-----------------------------------------------------------------------------
(* Bounds of the model *)

MaxTime == 1
MaxMsgs == 2
MaxOps == 2
MaxInFlight == 2

Slots == 1..MaxInFlight
NoSlot == 0

-----------------------------------------------------------------------------
(* Users.  A sender is the remote JID of the chat. *)

ownerNumber == "5567998808948"
prefix == "!"

Owner == "5567998808948@s.whatsapp.net"
U1 == "5511@s.whatsapp.net"
\* a group chat: every participant's message carries the group's JID as remoteJid
Group == "120363@g.us"
Users == {Owner, U1, Group}

\* sender.split('@')[0]
AtSplitHead(s) ==
    CASE s = Owner -> "5567998808948"
      [] s = U1 -> "5511"
      [] OTHER -> s

\* s.includes('@')
IncludesAt(s) == s \in {Owner, U1}

\* `${s}@s.whatsapp.net`
WithUserSuffix(s) ==
    CASE s = "5567998808948" -> Owner
      [] s = "5511" -> U1
      [] OTHER -> "other@s.whatsapp.net"

isOwner(sender) == AtSplitHead(sender) = ownerNumber

-----------------------------------------------------------------------------
(* Payloads: Record<string, any>.  A value is an atom or a nested mapping. *)

At(x) == [t |-> "atom", v |-> x]
Map(f) == [t |-> "map", m |-> f]

EmptyData == [k \in {} |-> At("")]

DataA == [cfg |-> Map([x |-> At("1")]), step |-> At("1")]
DataB == [cfg |-> Map([y |-> At("2")])]

\* an optional argument `data?`
Undefined == [some |-> FALSE, val |-> EmptyData]
Some(d) == [some |-> TRUE, val |-> d]

CreatePayloads == {Undefined, Some(DataA)}

\* a property that is present and holds `undefined`
Undef == [t |-> "undefined"]
DataU == [note |-> Undef, step |-> At("1")]
Patches == {Undefined, Some(DataB)}

\* { ...a, ...b }
Spread(a, b) ==
    [k \in (DOMAIN a) \cup (DOMAIN b) |-> IF k \in DOMAIN b THEN b[k] ELSE a[k]]

-----------------------------------------------------------------------------
(* Command names.  A name is the list of its ':'-separated parts.          *)

StateCommandName(pluginName, currentState) == <<"state", pluginName, currentState>>

\* w.split(':')
ColonSplit(w) ==
    CASE w = "state:quiz:ask" -> <<"state", "quiz", "ask">>
      [] w = "state:form:name" -> <<"state", "form", "name">>
      [] w = "state:form:confirm" -> <<"state", "form", "confirm">>
      [] OTHER -> <<w>>

\* w.toLowerCase()
toLowerCase(w) ==
    CASE w = "FORM" -> "form"
      [] w = "CANCELAR" -> "cancelar"
      [] w = "Confirmar" -> "confirmar"
      [] w = "QUIZ" -> "quiz"
      [] OTHER -> w

Steps == {"ask", "end"}

-----------------------------------------------------------------------------
(* Handlers.  Length(h) is Function.length of the registered function.     *)

NoHandler == "none"

Length(h) ==
    CASE h = "quiz.start" -> 2
      [] OTHER -> 1

\* the plugin whose initialize registered the handler
PluginOf(h) ==
    CASE h \in {"form.start", "form.name", "form.email", "form.age", "form.confirm"} -> "form"
      [] h \in {"quiz.start", "quiz.step"} -> "quiz"
      [] h \in {"extra.q", "extra.estados"} -> "extra"
      [] OTHER -> "core"

GenericHandlers == {"quiz.start", "quiz.step"}

\* commands/index.ts: the built-in commands, wrapped by wrapCommandsWithStats
BuiltinCommands ==
    (<<"estados">> :> "estados")
    @@ (<<"reiniciar">> :> "reiniciar")
    @@ (<<"limparsessao">> :> "limparSessao")

\* BasePlugin.commands of the form plugin after onInitialize
FormCommands ==
    (<<"form">> :> "form.start")
    @@ (StateCommandName("form", "name") :> "form.name")
    @@ (StateCommandName("form", "email") :> "form.email")
    @@ (StateCommandName("form", "age") :> "form.age")
    @@ (StateCommandName("form", "confirm") :> "form.confirm")

\* a plugin "quiz" whose start handler is declared with a second parameter
QuizCommands ==
    (<<"quiz">> :> "quiz.start")
    @@ (<<"q">> :> "quiz.start")
    @@ (StateCommandName("quiz", "ask") :> "quiz.step")

\* a plugin "extra" that names a command as the quiz plugin does and another
\* as a built-in command
ExtraCommands ==
    (<<"q">> :> "extra.q")
    @@ (<<"estados">> :> "extra.estados")

\* plugin.getCommands()
PluginCommands(name) ==
    CASE name = "form" -> FormCommands
      [] name = "quiz" -> QuizCommands
      [] OTHER -> ExtraCommands

\* the PluginManager once loadPlugins and initializePlugins went over a
\* directory with the two plugins: `plugins` lists the keys of the Map in
\* insertion order, `initialized` and `down` the calls of initialize and
\* onShutdown, `items` the directory with what goes wrong at each candidate
LoadedPlugins ==
    [items |-> <<[name |-> "form", fault |-> "none"], [name |-> "quiz", fault |-> "none"]>>,
     enabled |-> {}, disabled |-> {},
     stage |-> "collect", at |-> 1,
     plugins |-> <<"form", "quiz">>, initialized |-> <<"form", "quiz">>, down |-> <<>>]

\* Object.assign(allCommands, plugin.getCommands()) over this.plugins.values()
RECURSIVE getAllCommands(_)
getAllCommands(plugins) ==
    IF plugins = <<>>
    THEN [n \in {} |-> NoHandler]
    ELSE PluginCommands(plugins[Len(plugins)])
         @@ getAllCommands(SubSeq(plugins, 1, Len(plugins) - 1))

\* a variant in which a name that is registered keeps its handler
registerCommands_KeepFirst(cmds, commandsObject) == cmds @@ commandsObject

\* Object.entries(commandsObject).forEach(registerCommand)
registerCommands(cmds, commandsObject) == commandsObject @@ cmds

has(cmds, name) == name \in DOMAIN cmds

-----------------------------------------------------------------------------
(* StateManager: `states` maps a user to the id of its UserState object,   *)
(* `heap` holds the objects.  S is a record [states, heap].                *)

MaxObjs == Cardinality(Users) + MaxInFlight + 1
ObjIds == 1..MaxObjs
NoObj == 0

\* this.states.get(userId) || null
getState(st, userId) == st[userId]

\* this.states.set(userId, state)
setState(st, userId, obj) == [st EXCEPT ![userId] = obj]

\* a variant that assigns the patch instead of spreading it over the old data
updateState_Replace(S, userId, currentState, data) ==
    LET state == S.states[userId] IN
    IF state = NoObj
    THEN [states |-> S.states, heap |-> S.heap, ret |-> FALSE]
    ELSE [states |-> S.states,
          heap |-> [S.heap EXCEPT
                      ![state].currentState = currentState,
                      ![state].data = IF data.some THEN data.val ELSE @],
          ret |-> TRUE]

updateState(S, userId, currentState, data) ==
    LET state == S.states[userId] IN
    IF state = NoObj
    THEN [states |-> S.states, heap |-> S.heap, ret |-> FALSE]
    ELSE [states |-> setState(S.states, userId, state),
          heap |-> [S.heap EXCEPT
                      ![state].currentState = currentState,
                      ![state].data = IF data.some THEN Spread(@, data.val) ELSE @],
          ret |-> TRUE]

\* `id` is the object allocated by the object literal, `t` is new Date()
createState(S, userId, pluginName, initialState, data, t, id) ==
    [states |-> setState(S.states, userId, id),
     heap |-> (id :> [pluginName |-> pluginName,
                      currentState |-> initialState,
                      createdAt |-> t,
                      updatedAt |-> t,
                      data |-> IF data.some THEN data.val ELSE EmptyData])
              @@ S.heap]

\* a variant that reports the removal but keeps the entry
clearState_Keep(S, userId) ==
    [states |-> S.states, heap |-> S.heap, ret |-> S.states[userId] # NoObj]

clearState(S, userId) ==
    [states |-> [S.states EXCEPT ![userId] = NoObj],
     heap |-> S.heap,
     ret |-> S.states[userId] # NoObj]

\* a variant that writes a nested object without its members
Members_Shallow(f, path) ==
    UNION { LET v == f[k]
                p == Append(path, k)
            IN CASE v.t = "atom" -> {[path |-> p, kind |-> "string", v |-> v.v]}
                 [] v.t = "map" -> {[path |-> p, kind |-> "object", v |-> ""]}
                 [] OTHER -> {}
            : k \in DOMAIN f }

\* The text of a JSON object is the set of its members, one per leaf, each
\* named by its path; an object without members is a leaf of its own.
\* JSON.stringify leaves out a property whose value is undefined.
RECURSIVE Members(_, _)
Members(f, path) ==
    UNION { LET v == f[k]
                p == Append(path, k)
            IN CASE v.t = "atom" -> {[path |-> p, kind |-> "string", v |-> v.v]}
                 [] v.t = "map" -> IF Members(v.m, p) = {}
                                   THEN {[path |-> p, kind |-> "object", v |-> ""]}
                                   ELSE Members(v.m, p)
                 [] OTHER -> {}
            : k \in DOMAIN f }

\* the object whose members lie below `path`
RECURSIVE Object(_, _)
Object(text, path) ==
    LET n == Len(path) + 1
        below == {e \in text : Len(e.path) >= n /\ SubSeq(e.path, 1, n - 1) = path}
    IN [k \in {e.path[n] : e \in below} |->
          LET here == {e \in below : e.path = Append(path, k)} IN
          IF here = {}
          THEN Map(Object(text, Append(path, k)))
          ELSE IF (CHOOSE e \in here : TRUE).kind = "string"
          THEN At((CHOOSE e \in here : TRUE).v)
          ELSE Map(EmptyData)]

\* JSON.stringify(statesObject, null, 2): pluginName, currentState, createdAt and
\* updatedAt are strings already (createState stores toISOString())
JSONstringify(statesObject) ==
    [u \in DOMAIN statesObject |-> [statesObject[u] EXCEPT !.data = Members(@, <<>>)]]

\* JSON.parse(data)
JSONparse(data) ==
    [u \in DOMAIN data |-> [data[u] EXCEPT !.data = Object(@, <<>>)]]

\* lines 209-219: the users whose state is at the step `stateName`
getUsersInState(S, stateName) ==
    {u \in Users : S.states[u] # NoObj /\ S.heap[S.states[u]].currentState = stateName}

\* states.json as an earlier run of the bot left it: absent, or one flow of U1
NoFile == [u \in {} |-> 0]

PersistedImages ==
    { NoFile,
      JSONstringify(U1 :> [pluginName |-> "quiz", currentState |-> "ask", createdAt |-> 0,
                           updatedAt |-> 0, data |-> DataA]),
      JSONstringify(U1 :> [pluginName |-> "q", currentState |-> "ask", createdAt |-> 0,
                           updatedAt |-> 0, data |-> EmptyData]) }

UserIndex(u) == IF u = Owner THEN 1 ELSE IF u = U1 THEN 2 ELSE 3

\* for (const [userId, state] of Object.entries(statesData)) this.states.set(userId, state)
loadStates(statesData) ==
    LET idOf(u) == Cardinality({v \in DOMAIN statesData : UserIndex(v) <= UserIndex(u)}) IN
    [states |-> [u \in Users |-> IF u \in DOMAIN statesData THEN idOf(u) ELSE NoObj],
     heap |-> [id \in {idOf(u) : u \in DOMAIN statesData} |->
                 statesData[CHOOSE u \in DOMAIN statesData : idOf(u) = id]],
     threw |-> FALSE]

\* a variant whose catch block lets the error leave the constructor
readStates_Rethrow(content, text) ==
    IF content = "json"
    THEN [loadStates(JSONparse(text)) EXCEPT !.threw = FALSE]
    ELSE [loadStates(NoFile) EXCEPT !.threw = content = "corrupt"]

\* loadStates, lines 49-69.  `content` tells what is at stateFilePath: nothing
\* ("absent"), a JSON document ("json"), or something readFileSync or
\* JSON.parse throws on ("corrupt"); the catch block starts from a new Map
readStates(content, text) ==
    IF content = "json"
    THEN [loadStates(JSONparse(text)) EXCEPT !.threw = FALSE]
    ELSE [loadStates(NoFile) EXCEPT !.threw = FALSE]

-----------------------------------------------------------------------------
(* Inbound messages *)

Text(sender, pfx, words) ==
    [sender |-> sender, kind |-> "text", pfx |-> pfx, words |-> words, selectedId |-> "",
     participant |-> ""]

\* buttonsResponseMessage: the content is selectedDisplayText
Button(sender, words, selectedId) ==
    [sender |-> sender, kind |-> "button", pfx |-> FALSE, words |-> words,
     selectedId |-> selectedId, participant |-> ""]

\* a text written in the group chat: key.remoteJid is the group, key.participant
\* the writer
GroupText(participant, pfx, words) ==
    [Text(Group, pfx, words) EXCEPT !.participant = participant]

Inbound ==
    { Text(U1, TRUE, w) : w \in { <<"form">>, <<"QUIZ">>, <<"q">>, <<"nope">> } }
    \cup { Text(U1, FALSE, <<"hello">>) }
    \cup { Text(Owner, TRUE, <<"estados", "limpar", "5511">>),
           Text(Owner, TRUE, <<"estados", "limpar", U1>>),
           Text(U1, TRUE, <<"estados", "limpar", "5511">>) }
    \cup { Button(U1, <<"Yes">>, "b1") }

-----------------------------------------------------------------------------
(* handleMessage invocations *)

IdleInv ==
    [pc |-> "idle", msg |-> Text(U1, FALSE, <<>>), userState |-> NoObj,
     arrival |-> 0, route |-> "none", name |-> <<>>,
     h |-> NoHandler, ctx |-> "none", commandName |-> "", args |-> <<>>,
     ops |-> 0, invoked |-> <<>>, out |-> <<>>, suspended |-> FALSE,
     lastOp |-> "none", lastRet |-> FALSE, errs |-> 0, listed |-> {}]

\* objects that are still referenced by the Map or by a local `userState`
Referenced(st, iv) ==
    ({st[u] : u \in Users} \cup {iv[i].userState : i \in Slots}) \ {NoObj}

Gc(hp, st, iv) == [id \in (DOMAIN hp) \cap Referenced(st, iv) |-> hp[id]]

NewObj(st, iv) ==
    CHOOSE id \in ObjIds \ Referenced(st, iv) :
        \A other \in ObjIds \ Referenced(st, iv) : id <= other

FreeSlot == CHOOSE i \in Slots : inv[i].pc = "idle" /\ \A j \in Slots : inv[j].pc = "idle" => i <= j

CanRun(i) == running = i \/ (running = NoSlot /\ inv[i].suspended)

-----------------------------------------------------------------------------
(* MessageHandler.handleMessage: routing *)

NoRoute(route) ==
    [route |-> route, name |-> <<>>, h |-> NoHandler, ctx |-> "none",
     commandName |-> "", args |-> <<>>]

\* lines 57-71: the step handler of the sender's state, when it is registered
StateContinuation(cmds, hp, obj, m) ==
    LET stateCommandName == StateCommandName(hp[obj].pluginName, hp[obj].currentState) IN
    [route |-> "state", name |-> stateCommandName, h |-> cmds[stateCommandName],
     ctx |-> "state", commandName |-> "", args |-> m.words]

\* a variant that stays silent on an unregistered command name
Dispatch_UnknownSilent(cmds, m) ==
    IF m.kind = "button" /\ m.selectedId # ""
    THEN NoRoute("interactive")
    ELSE IF m.pfx /\ m.words # <<>> /\ has(cmds, ColonSplit(toLowerCase(Head(m.words))))
    THEN LET commandName == toLowerCase(Head(m.words))
             key == ColonSplit(commandName)
         IN [route |-> "command", name |-> key, h |-> cmds[key],
             ctx |-> IF Length(cmds[key]) > 1 THEN "flow" ELSE "plain",
             commandName |-> commandName, args |-> Tail(m.words)]
    ELSE NoRoute("plain")

\* lines 129-249: interactive reply, then command dispatch
Dispatch(cmds, m) ==
    IF m.kind = "button" /\ m.selectedId # ""
    THEN NoRoute("interactive")
    ELSE IF m.pfx
    THEN LET cmdName == IF m.words = <<>> THEN "" ELSE Head(m.words)
             args == IF m.words = <<>> THEN <<>> ELSE Tail(m.words)
             commandName == toLowerCase(cmdName)
             key == ColonSplit(commandName)
         IN IF has(cmds, key)
            THEN [route |-> "command", name |-> key, h |-> cmds[key],
                  ctx |-> IF Length(cmds[key]) > 1 THEN "flow" ELSE "plain",
                  commandName |-> commandName, args |-> args]
            ELSE [NoRoute("unknown") EXCEPT !.commandName = commandName]
    ELSE NoRoute("plain")

\* a variant that looks for a command before it looks at the sender's state
Route_CommandFirst(cmds, st, hp, m) ==
    LET userState == getState(st, m.sender) IN
    IF Dispatch(cmds, m).route = "command" \/ userState = NoObj
       \/ ~has(cmds, StateCommandName(hp[userState].pluginName, hp[userState].currentState))
    THEN Dispatch(cmds, m)
    ELSE StateContinuation(cmds, hp, userState, m)

\* a variant that drops the message when the step handler is not registered
Route_DropOnMissingHandler(cmds, st, hp, m) ==
    LET userState == getState(st, m.sender) IN
    IF userState = NoObj
    THEN Dispatch(cmds, m)
    ELSE IF has(cmds, StateCommandName(hp[userState].pluginName, hp[userState].currentState))
    THEN StateContinuation(cmds, hp, userState, m)
    ELSE NoRoute("plain")

\* line 61 and line 71
Route(cmds, st, hp, m) ==
    LET userState == getState(st, m.sender) IN
    IF userState # NoObj
       /\ has(cmds, StateCommandName(hp[userState].pluginName, hp[userState].currentState))
    THEN StateContinuation(cmds, hp, userState, m)
    ELSE Dispatch(cmds, m)

\* a variant without the refresh
refreshActivity_Skip(hp, obj, t) == hp

\* line 65: userState.updatedAt = new Date().toISOString()
refreshActivity(hp, obj, t) ==
    IF obj # NoObj THEN [hp EXCEPT ![obj].updatedAt = t] ELSE hp

\* what the router does once the route is known, up to the first await
Enter(rec, r) ==
    LET base == [rec EXCEPT !.route = r.route, !.name = r.name, !.h = r.h,
                            !.ctx = r.ctx, !.commandName = r.commandName,
                            !.args = r.args, !.ops = 0]
    IN CASE r.route \in {"state", "command"} ->
              [base EXCEPT !.pc = "handler", !.suspended = FALSE,
                           !.invoked = Append(@, r.name)]
         [] r.route = "interactive" ->
              [base EXCEPT !.pc = "notify", !.suspended = TRUE,
                           !.out = Append(@, "selected")]
         [] r.route = "unknown" ->
              [base EXCEPT !.pc = "notify", !.suspended = TRUE,
                           !.out = Append(@, "unknown")]
         [] OTHER -> IdleInv

\* a variant without the `return`: the message goes on to command dispatch
AfterStateHandler_FallThrough(rec, cmds) == Enter(rec, Dispatch(cmds, rec.msg))

\* lines 106 and 122: `return` after the step handler ran
AfterStateHandler(rec, cmds) == IdleInv

Commit(i, rec, S) ==
    LET iv2 == [inv EXCEPT ![i] = rec] IN
    /\ inv' = iv2
    /\ states' = S.states
    /\ heap' = Gc(S.heap, S.states, iv2)
    /\ running' = IF rec.pc = "handler" /\ ~rec.suspended THEN i ELSE NoSlot

Store == [states |-> states, heap |-> heap]

\* lines 28-71 / 129-172: a 'messages.upsert' event reaches handleMessage
Receive(m) ==
    /\ running = NoSlot
    /\ events < MaxMsgs
    /\ \E j \in Slots : inv[j].pc = "idle"
    /\ LET i == FreeSlot
           userState == getState(states, m.sender)
           hp1 == refreshActivity(heap, userState, now)
           st1 == IF userState # NoObj THEN setState(states, m.sender, userState) ELSE states
           rec0 == [IdleInv EXCEPT !.msg = m, !.userState = userState, !.arrival = now]
           rec == Enter(rec0, Route(commands, st1, hp1, m))
       IN Commit(i, rec, [states |-> st1, heap |-> hp1])
    /\ messagesProcessed' = messagesProcessed + 1
    /\ events' = events + 1
    /\ UNCHANGED <<file, commands, started, now, errors, unhandled, removedCount, Process>>

\* 'messages.upsert' events that handleMessage drops
Event(messages, key, remoteJid, message) ==
    [messages |-> messages, key |-> key, remoteJid |-> remoteJid, message |-> message]

Dropped ==
    { Event(0, FALSE, "", FALSE),
      Event(1, FALSE, "", TRUE),
      Event(1, TRUE, "", TRUE),
      Event(1, TRUE, "status@broadcast", TRUE),
      Event(1, TRUE, U1, FALSE) }

\* lines 29 and 37
Ignored(e) ==
    \/ e.messages = 0
    \/ ~e.key \/ e.remoteJid = "" \/ e.remoteJid = "status@broadcast" \/ ~e.message

\* a variant that counts a status broadcast before it drops it
CountIgnored_Status(e, count) ==
    IF e.messages > 0 /\ e.remoteJid = "status@broadcast" THEN count + 1 ELSE count

\* lines 29-40 return before incrementMessageCount at line 43
CountIgnored(e, count) == count

\* lines 28-40: the event is dropped
Ignore(e) ==
    /\ running = NoSlot
    /\ events < MaxMsgs
    /\ Ignored(e)
    /\ events' = events + 1
    /\ messagesProcessed' = CountIgnored(e, messagesProcessed)
    /\ UNCHANGED <<states, heap, file, commands, started, now, inv, running, errors,
                   unhandled, removedCount, Process>>

-----------------------------------------------------------------------------
(* FlowContext: the closures handed to a handler *)

\* line 78: userState.pluginName; line 185: commandName.split(':')[0] || 'core'
ContextOwner(rec, hp) ==
    IF rec.ctx = "state"
    THEN hp[rec.userState].pluginName
    ELSE LET p == ColonSplit(rec.commandName)[1] IN IF p = "" THEN "core" ELSE p

\* lines 77-79 and 183-187
FlowCreateState(rec, S, initialState, data, t, id) ==
    createState(S, rec.msg.sender, ContextOwner(rec, S.heap), initialState, data, t, id)

\* lines 81-83 and 189-191
FlowUpdateState(rec, S, newState, data) ==
    IF rec.ctx = "state" \/ rec.userState # NoObj
    THEN updateState(S, rec.msg.sender, newState, data)
    ELSE [states |-> S.states, heap |-> S.heap, ret |-> FALSE]

\* lines 85-87 and 193-195
FlowClearState(rec, S) == clearState(S, rec.msg.sender)

Called(rec, op, ret) ==
    [rec EXCEPT !.ops = @ + 1, !.suspended = FALSE, !.lastOp = op, !.lastRet = ret]

\* the handler returned: lines 103-106, or line 222
Returned(rec, cmds) ==
    IF rec.route = "state"
    THEN AfterStateHandler(rec, cmds)
    ELSE IdleInv

\* the handler threw: lines 107-117, or lines 223-233
Thrown(rec) ==
    [rec EXCEPT !.pc = "notify", !.suspended = TRUE, !.errs = @ + 1,
                !.out = Append(@, "error"), !.ops = 0, !.lastOp = "none", !.lastRet = FALSE]

\* a variant whose catch block removes the sender's state
CatchStore_Clear(rec, S) ==
    [states |-> [S.states EXCEPT ![rec.msg.sender] = NoObj], heap |-> S.heap]

\* lines 107-122 and 223-236: the catch blocks make no StateManager call
CatchStore(rec, S) == S

InHandler(i, hs) ==
    /\ inv[i].pc = "handler"
    /\ inv[i].h \in hs
    /\ CanRun(i)

Frame == UNCHANGED <<file, commands, started, now, messagesProcessed, events, removedCount, Process>>

\* a variant in which a rejected notice send leaves handleMessage as a rejection
Escapes_Rethrow(rec, ok) == ~ok

\* lines 34 and 250-252, 114-120, 231-235, 241-247: every await of the router is
\* inside a try whose catch logs and does not rethrow
Escapes(rec, ok) == FALSE

-----------------------------------------------------------------------------
(* A handler written by a plugin author: any sequence of FlowContext calls  *)
(* and awaited sends, ended by a return or a throw.                         *)

HCreate(i, step, data) ==
    /\ InHandler(i, GenericHandlers)
    /\ inv[i].ops < MaxOps
    /\ LET S == FlowCreateState(inv[i], Store, step, data, now, NewObj(states, inv))
       IN Commit(i, Called(inv[i], "create", TRUE), S)
    /\ UNCHANGED errors /\ Frame /\ UNCHANGED unhandled

HUpdate(i, step, data) ==
    /\ InHandler(i, GenericHandlers)
    /\ inv[i].ops < MaxOps
    /\ LET S == FlowUpdateState(inv[i], Store, step, data)
       IN Commit(i, Called(inv[i], "update", S.ret), S)
    /\ UNCHANGED errors /\ Frame /\ UNCHANGED unhandled

HClear(i) ==
    /\ InHandler(i, GenericHandlers)
    /\ inv[i].ops < MaxOps
    /\ LET S == FlowClearState(inv[i], Store)
       IN Commit(i, Called(inv[i], "clear", S.ret), S)
    /\ UNCHANGED errors /\ Frame /\ UNCHANGED unhandled

\* await sock.sendMessage(sender, ...)
HSend(i) ==
    /\ InHandler(i, GenericHandlers)
    /\ inv[i].ops < MaxOps
    /\ Commit(i, [inv[i] EXCEPT !.ops = @ + 1, !.suspended = TRUE], Store)
    /\ UNCHANGED errors /\ Frame /\ UNCHANGED unhandled

HReturn(i) ==
    /\ InHandler(i, GenericHandlers)
    /\ Commit(i, Returned(inv[i], commands), Store)
    /\ UNCHANGED errors /\ Frame /\ UNCHANGED unhandled

HThrow(i) ==
    /\ InHandler(i, GenericHandlers)
    /\ Commit(i, Thrown(inv[i]), CatchStore(inv[i], Store))
    /\ errors' = errors + 1
    /\ Frame /\ UNCHANGED unhandled

-----------------------------------------------------------------------------
(* Handlers of the repository *)

\* FormPlugin.startFormCommand
FormStart(i) ==
    /\ InHandler(i, {"form.start"})
    /\ LET rec == inv[i]
           formType == IF rec.args = <<>> THEN "default" ELSE rec.args[1]
       IN IF rec.ctx # "plain"
          THEN Commit(i, [Called(rec, "create", TRUE) EXCEPT
                             !.pc = "tail", !.suspended = TRUE,
                             !.out = Append(@, "form.prompt")],
                      FlowCreateState(rec, Store, "name",
                                      Some([formType |-> At(formType), data |-> Map(EmptyData)]),
                                      now, NewObj(states, inv)))
          ELSE Commit(i, [rec EXCEPT !.pc = "tail", !.suspended = TRUE,
                                     !.out = Append(@, "form.unavailable")], Store)
    /\ UNCHANGED errors /\ Frame /\ UNCHANGED unhandled

\* The replies to the form are single words: messageContent is Head(m.words),
\* after the prefix when there is one.

\* messageContent.length
length(m) ==
    (IF m.pfx THEN 1 ELSE 0)
    + (IF m.words = <<>> THEN 0
       ELSE CASE Head(m.words) \in {"Al", "30"} -> 2
              [] Head(m.words) \in {"Ana", "abc"} -> 3
              [] Head(m.words) = "ana@x" -> 5
              [] Head(m.words) = "talvez" -> 6
              [] Head(m.words) \in {"cancelar", "CANCELAR"} -> 8
              [] Head(m.words) \in {"ana@x.com", "confirmar", "Confirmar"} -> 9
              [] OTHER -> 12)

\* messageContent.includes(mark) for the marks '@' and '.'
includes(m, mark) ==
    /\ m.words # <<>>
    /\ \/ Head(m.words) = "ana@x.com"
       \/ Head(m.words) = "ana@x" /\ mark = "@"

\* parseInt(messageContent, 10)
parseInt(m) ==
    IF ~m.pfx /\ m.words = <<"30">> THEN [nan |-> FALSE, n |-> 30]
    ELSE IF ~m.pfx /\ m.words = <<"130">> THEN [nan |-> FALSE, n |-> 130]
    ELSE [nan |-> TRUE, n |-> 0]

\* messageContent.toLowerCase() === (pfx ? '!' + word : word)
lowerEquals(m, pfx, word) ==
    m.pfx = pfx /\ Len(m.words) = 1 /\ toLowerCase(m.words[1]) = word

\* what a step handler does before its awaited send: nothing, updateState or
\* clearState, and the text it sends
Effect(op, step, data, out) == [op |-> op, step |-> step, data |-> data, out |-> out]

\* FormPlugin.nameStateHandler, `data` being state?.data
nameStateHandler(m, data) ==
    IF m.pfx
    THEN Effect("none", "", data, "form.busy")
    ELSE IF lowerEquals(m, FALSE, "cancelar") \/ lowerEquals(m, TRUE, "cancelar")
    THEN Effect("clear", "", data, "form.cancelled")
    ELSE IF length(m) < 3
    THEN Effect("none", "", data, "form.invalid")
    ELSE Effect("update", "email", Spread(data, [name |-> At(Head(m.words))]), "form.email?")

\* a variant that takes the '@' for enough
emailStateHandler_AtOnly(m, data) ==
    IF m.pfx
    THEN Effect("none", "", data, "form.busy")
    ELSE IF lowerEquals(m, FALSE, "cancelar") \/ lowerEquals(m, TRUE, "cancelar")
    THEN Effect("clear", "", data, "form.cancelled")
    ELSE IF ~includes(m, "@")
    THEN Effect("none", "", data, "form.invalid")
    ELSE Effect("update", "age", Spread(data, [email |-> At(Head(m.words))]), "form.age?")

\* FormPlugin.emailStateHandler
emailStateHandler(m, data) ==
    IF m.pfx
    THEN Effect("none", "", data, "form.busy")
    ELSE IF lowerEquals(m, FALSE, "cancelar") \/ lowerEquals(m, TRUE, "cancelar")
    THEN Effect("clear", "", data, "form.cancelled")
    ELSE IF ~includes(m, "@") \/ ~includes(m, ".")
    THEN Effect("none", "", data, "form.invalid")
    ELSE Effect("update", "age", Spread(data, [email |-> At(Head(m.words))]), "form.age?")

\* FormPlugin.ageStateHandler
ageStateHandler(m, data) ==
    IF m.pfx
    THEN Effect("none", "", data, "form.busy")
    ELSE IF lowerEquals(m, FALSE, "cancelar") \/ lowerEquals(m, TRUE, "cancelar")
    THEN Effect("clear", "", data, "form.cancelled")
    ELSE LET age == parseInt(m) IN
         IF age.nan \/ age.n < 1 \/ age.n > 120
         THEN Effect("none", "", data, "form.invalid")
         ELSE Effect("update", "confirm", Spread(data, [age |-> At(ToString(age.n))]), "form.confirm?")

\* FormPlugin.confirmStateHandler
confirmStateHandler(m, data) ==
    IF m.pfx /\ ~(m.words # <<>> /\ toLowerCase(Head(m.words)) = "cancelar")
    THEN Effect("none", "", data, "form.busy")
    ELSE IF \E w \in {"confirmar", "sim", "ok"} : lowerEquals(m, FALSE, w)
    THEN Effect("clear", "", data, "form.done")
    ELSE IF \/ \E w \in {"cancelar", "não", "nao"} : lowerEquals(m, FALSE, w)
            \/ lowerEquals(m, TRUE, "cancelar")
    THEN Effect("clear", "", data, "form.cancelled")
    ELSE Effect("none", "", data, "form.invalid")

\* a step handler of the form plugin runs up to its awaited send; without a
\* FlowContext `state` is undefined and updateState / clearState are not functions
FormStep(i) ==
    /\ InHandler(i, {"form.name", "form.email", "form.age", "form.confirm"})
    /\ LET rec == inv[i]
           data == IF rec.ctx = "state" THEN heap[rec.userState].data ELSE EmptyData
           o == CASE rec.h = "form.name" -> nameStateHandler(rec.msg, data)
                  [] rec.h = "form.email" -> emailStateHandler(rec.msg, data)
                  [] rec.h = "form.age" -> ageStateHandler(rec.msg, data)
                  [] OTHER -> confirmStateHandler(rec.msg, data)
           S == CASE o.op = "update" -> FlowUpdateState(rec, Store, o.step, Some(o.data))
                  [] o.op = "clear" -> FlowClearState(rec, Store)
                  [] OTHER -> [states |-> states, heap |-> heap, ret |-> FALSE]
       IN IF o.op = "none"
          THEN /\ Commit(i, [rec EXCEPT !.pc = "tail", !.suspended = TRUE,
                                        !.out = Append(@, o.out)], Store)
               /\ UNCHANGED errors
          ELSE IF rec.ctx # "state"
          THEN /\ Commit(i, Thrown(rec), CatchStore(rec, Store))
               /\ errors' = errors + 1
          ELSE /\ Commit(i, [Called(rec, o.op, S.ret) EXCEPT
                               !.pc = "tail", !.suspended = TRUE,
                               !.out = Append(@, o.out)], S)
               /\ UNCHANGED errors
    /\ Frame /\ UNCHANGED unhandled

\* admin command `estados`
Estados(i) ==
    /\ InHandler(i, {"estados"})
    /\ LET rec == inv[i]
           args == rec.args
           reply(tag) == [rec EXCEPT !.pc = "tail", !.suspended = TRUE,
                                     !.out = Append(@, tag)]
       IN IF ~isOwner(rec.msg.sender)
          THEN Commit(i, reply("notOwner"), Store)
          ELSE IF Len(args) = 0
          THEN Commit(i, reply("help"), Store)
          ELSE IF toLowerCase(args[1]) = "listar"
          THEN LET users == getUsersInState(Store, "") IN
               Commit(i, [reply(IF users = {} THEN "noActiveStates" ELSE "list")
                            EXCEPT !.lastOp = "listar", !.listed = users], Store)
          ELSE IF toLowerCase(args[1]) = "limpartodos"
          THEN LET users == getUsersInState(Store, "")
                   S == [states |-> [u \in Users |-> IF u \in users THEN NoObj
                                                     ELSE states[u]],
                         heap |-> heap]
               IN Commit(i, [reply("clearedAll")
                               EXCEPT !.lastOp = "limpartodos", !.listed = users], S)
          ELSE IF toLowerCase(args[1]) = "limpar"
          THEN IF Len(args) < 2
               THEN Commit(i, reply("needUser"), Store)
               ELSE LET userId == IF IncludesAt(args[2]) THEN args[2]
                                  ELSE WithUserSuffix(args[2])
                        S == clearState(Store, userId)
                    IN Commit(i, [reply(IF S.ret THEN "cleared" ELSE "noActiveState")
                                    EXCEPT !.lastOp = "limpar", !.lastRet = S.ret], S)
          ELSE Commit(i, reply("unknownSub"), Store)
    /\ UNCHANGED errors /\ Frame /\ UNCHANGED unhandled

\* the handler's last awaited send settles: it returns, or the send rejects
SendSettles(i, ok) ==
    /\ inv[i].pc = "tail"
    /\ running = NoSlot
    /\ Commit(i, IF ok THEN Returned(inv[i], commands) ELSE Thrown(inv[i]),
               IF ok THEN Store ELSE CatchStore(inv[i], Store))
    /\ errors' = IF ok THEN errors ELSE errors + 1
    /\ Frame /\ UNCHANGED unhandled

\* the router's own awaited send settles; `unhandled` counts the rejections
\* that leave handleMessage
NotifyDone(i, ok) ==
    /\ inv[i].pc = "notify"
    /\ running = NoSlot
    /\ Commit(i, IF inv[i].route = "state"
                 THEN AfterStateHandler(inv[i], commands)
                 ELSE IdleInv, Store)
    /\ unhandled' = IF Escapes(inv[i], ok) THEN unhandled + 1 ELSE unhandled
    /\ UNCHANGED errors /\ Frame

-----------------------------------------------------------------------------
(* startBot and the clock *)

\* lines 60-64: initializePlugins, getAllCommands, registerCommands
RegisterPluginCommands ==
    /\ ~started
    /\ running = NoSlot
    /\ commands' = registerCommands(commands, getAllCommands(pm.plugins))
    /\ started' = TRUE
    /\ UNCHANGED <<states, heap, file, now, inv, running, messagesProcessed, errors,
                   unhandled, events, removedCount, Process>>

-----------------------------------------------------------------------------
(* MessageQueue (utils/message-queue.ts, in src/src/utils/history-storage.ts) *)

\* the queue as constructed: nothing waiting, no loop, no socket.  `loops`
\* holds the processQueue invocations suspended at an await with the message
\* each one shifted, `sent` the messages handed to sock.sendMessage in order,
\* `enqueued` the number of enqueue calls so far (a message's id)
IdleQueue ==
    [queue |-> <<>>, processing |-> FALSE, sock |-> FALSE, loops |-> {},
     sent |-> <<>>, enqueued |-> 0]

\* sendMessage, sendStatus, sendCommandResponse
Priorities == {0, 5, 10}

\* a queue left in the order of the pushes
sort_Unsorted(queue) == queue

\* queue.sort((a, b) => b.priority - a.priority): a stable sort, highest first
RECURSIVE sort(_)
sort(queue) ==
    IF queue = <<>> THEN <<>>
    ELSE LET last == queue[Len(queue)]
             front == sort(SubSeq(queue, 1, Len(queue) - 1))
             ahead == SelectSeq(front, LAMBDA m : m.priority - last.priority >= 0)
             behind == SelectSeq(front, LAMBDA m : m.priority - last.priority < 0)
         IN  ahead \o <<last>> \o behind

\* the head of the while loop for the invocation that held `loop` (none when it
\* has just been called): shift and hand to the socket, or leave the loop
shift(q, loop) ==
    IF Len(q.queue) > 0
    THEN [q EXCEPT !.queue = Tail(q.queue),
                   !.loops = (q.loops \ loop) \cup {[pc |-> "send", message |-> Head(q.queue)]},
                   !.sent = Append(q.sent, Head(q.queue).id)]
    ELSE [q EXCEPT !.processing = FALSE, !.loops = q.loops \ loop]

\* a loop that never raises the flag
processQueue_NoFlag(q) ==
    IF ~q.sock THEN q ELSE [shift(q, {}) EXCEPT !.processing = q.processing]

\* processQueue up to its first await
processQueue(q) ==
    IF ~q.sock THEN q ELSE shift([q EXCEPT !.processing = TRUE], {})

\* enqueue(jid, content, priority)
enqueue(q, priority) ==
    LET message == [id |-> q.enqueued + 1, priority |-> priority]
        pushed == [q EXCEPT !.queue = sort(Append(q.queue, message)),
                            !.enqueued = q.enqueued + 1]
    IN  IF ~pushed.processing THEN processQueue(pushed) ELSE pushed

Tick ==
    /\ now < MaxTime
    /\ running = NoSlot
    /\ now' = now + 1
    /\ UNCHANGED <<states, heap, file, commands, started, inv, running,
                   messagesProcessed, errors, unhandled, events, removedCount, Process>>

Init ==
    /\ file \in PersistedImages
    /\ sink = IF file = NoFile THEN "absent" ELSE "json"
    /\ states = readStates(sink, file).states
    /\ heap = readStates(sink, file).heap
    /\ saveInterval = TRUE
    /\ proc = "up"
    /\ exitTimer = FALSE
    /\ boots = 1
    /\ pm = LoadedPlugins
    /\ mq = IdleQueue
    /\ commands = registerCommands([n \in {} |-> NoHandler], BuiltinCommands)
    /\ started = FALSE
    /\ now = 0
    /\ inv = [i \in Slots |-> IdleInv]
    /\ running = NoSlot
    /\ messagesProcessed = 0
    /\ errors = 0
    /\ unhandled = 0
    /\ events = 0
    /\ removedCount = 0

Next ==
    \/ \E m \in Inbound : Receive(m)
    \/ \E e \in Dropped : Ignore(e)
    \/ \E i \in Slots, step \in Steps, data \in CreatePayloads : HCreate(i, step, data)
    \/ \E i \in Slots, step \in Steps, data \in Patches : HUpdate(i, step, data)
    \/ \E i \in Slots : HClear(i)
    \/ \E i \in Slots : HSend(i)
    \/ \E i \in Slots : HReturn(i)
    \/ \E i \in Slots : HThrow(i)
    \/ \E i \in Slots : FormStart(i)
    \/ \E i \in Slots : Estados(i)
    \/ \E i \in Slots, ok \in BOOLEAN : SendSettles(i, ok)
    \/ \E i \in Slots, ok \in BOOLEAN : NotifyDone(i, ok)
    \/ RegisterPluginCommands
    \/ Tick

Spec == Init /\ [][Next]_vars

-----------------------------------------------------------------------------
(* StateManager on its own: cleanupOldStates called by a direct caller, and  *)
(* the one timer the constructor sets up.  Times are in hours.               *)

maxAgeHours == 24

HourMs == 60 * 60 * 1000

\* the optional argument `maxAgeHours?: number`
NoArg == [some |-> FALSE, val |-> 0]
Given(h) == [some |-> TRUE, val |-> h]

Thresholds == {NoArg, Given(0), Given(1), Given(maxAgeHours + 1)}

SweepStart == maxAgeHours + 2
MaxSweepTime == SweepStart + MaxTime

Stamps == {0, 1, 2, maxAgeHours + 1, maxAgeHours + 2}

\* `x || y` on numbers: 0 is falsy
OrElse(x, y) == IF x # 0 THEN x ELSE y

\* `now` is new Date() at the call
cleanupOldStates(S, maxAgeHoursArg, t) ==
    LET maxAge == OrElse(IF maxAgeHoursArg.some THEN maxAgeHoursArg.val ELSE 0,
                         OrElse(maxAgeHours, 24))
        maxAgeMs == maxAge * HourMs
        expired == {u \in Users : S.states[u] # NoObj
                        /\ (t - S.heap[S.states[u]].updatedAt) * HourMs > maxAgeMs}
    IN [states |-> [u \in Users |-> IF u \in expired THEN NoObj ELSE S.states[u]],
        heap |-> S.heap,
        ret |-> Cardinality(expired)]

\* a variant that writes every state without its payload
saveStates_NoPayload(S) ==
    JSONstringify([u \in {v \in Users : S.states[v] # NoObj} |->
                     [S.heap[S.states[u]] EXCEPT !.data = EmptyData]])

\* statesObject[userId] = state for every entry of the Map
saveStates(S) ==
    JSONstringify([u \in {v \in Users : S.states[v] # NoObj} |-> S.heap[S.states[u]]])

SweepImages ==
    { JSONstringify(statesObject) : statesObject \in
        UNION { [us -> [pluginName : {"quiz"}, currentState : {"ask"}, createdAt : {0},
                        updatedAt : Stamps, data : {DataA}]] : us \in SUBSET Users } }

Sweep(h) ==
    /\ running = NoSlot
    /\ LET S == cleanupOldStates(Store, h, now)
       IN /\ states' = S.states
          /\ heap' = Gc(S.heap, S.states, inv)
          /\ removedCount' = S.ret
    /\ UNCHANGED <<file, commands, started, now, inv, running, messagesProcessed,
                   errors, unhandled, events, Process>>

\* what a writeFileSync that throws leaves at stateFilePath: the old content,
\* or a truncated text
FailedWrite(content) == {content, "corrupt"}

\* a variant without the try/catch: the error leaves saveStates
saveStatesThrows_Rethrow(ok) == ~ok

\* lines 75 and 91-93: the catch block logs the error
saveStatesThrows(ok) == FALSE

\* lines 83-89: mkdirSync and writeFileSync replace the whole document
Write(ok) ==
    IF ok
    THEN file' = saveStates(Store) /\ sink' = "json"
    ELSE \E content \in FailedWrite(sink) :
            /\ sink' = content
            /\ file' = IF content = "json" THEN file ELSE NoFile

\* the setInterval callback of setupAutoSave
AutoSave(ok) ==
    /\ running = NoSlot
    /\ proc # "down"
    /\ saveInterval
    /\ Write(ok)
    /\ unhandled' = IF saveStatesThrows(ok) THEN unhandled + 1 ELSE unhandled
    /\ UNCHANGED <<states, heap, commands, started, now, inv, running,
                   messagesProcessed, errors, events, removedCount,
                   saveInterval, proc, exitTimer, boots, pm, mq>>

Later ==
    /\ now < MaxSweepTime
    /\ running = NoSlot
    /\ now' = now + 1
    /\ UNCHANGED <<states, heap, file, commands, started, inv, running,
                   messagesProcessed, errors, unhandled, events, removedCount, Process>>

SweepInit ==
    /\ file \in SweepImages
    /\ sink = IF file = NoFile THEN "absent" ELSE "json"
    /\ states = readStates(sink, file).states
    /\ heap = readStates(sink, file).heap
    /\ saveInterval = TRUE
    /\ proc = "up"
    /\ exitTimer = FALSE
    /\ boots = 1
    /\ mq = IdleQueue
    /\ pm = LoadedPlugins
    /\ commands = registerCommands([n \in {} |-> NoHandler], BuiltinCommands)
    /\ started = FALSE
    /\ now = SweepStart
    /\ inv = [i \in Slots |-> IdleInv]
    /\ running = NoSlot
    /\ messagesProcessed = 0
    /\ errors = 0
    /\ unhandled = 0
    /\ events = 0
    /\ removedCount = 0

SweepNext ==
    \/ \E h \in Thresholds : Sweep(h)
    \/ \E ok \in BOOLEAN : AutoSave(ok)
    \/ Later

\* the interval timer keeps firing and time passes; nothing schedules a sweep
SweepSpec ==
    /\ SweepInit /\ [][SweepNext]_vars
    /\ WF_vars(AutoSave(TRUE)) /\ WF_vars(Later)

-----------------------------------------------------------------------------
(* The process from start to exit: the StateManager constructor, the signal  *)
(* handlers of index.ts, and the two commands that end the process.          *)

MaxBoots == 2

\* states.json before the first start
FirstImages ==
    { JSONstringify(U1 :> [pluginName |-> "quiz", currentState |-> "ask", createdAt |-> 0,
                           updatedAt |-> 0, data |-> DataA]) }

NoStates == [states |-> [u \in Users |-> NoObj], heap |-> loadStates(NoFile).heap]

\* a variant that leaves the timer running
clearInterval_Keep(armed) == armed

\* lines 272-275: clearInterval(this.saveInterval); this.saveInterval = null
clearInterval(armed) == FALSE

\* node starts the program: importing core/state-manager.ts constructs the
\* StateManager (loadStates, then setupAutoSave), startBot registers the
\* built-in commands
Start ==
    /\ proc = "down"
    /\ boots < MaxBoots
    /\ LET loaded == readStates(sink, file) IN
        /\ states' = loaded.states
        /\ heap' = loaded.heap
        /\ proc' = IF loaded.threw THEN "down" ELSE "up"
        /\ saveInterval' = ~loaded.threw
    /\ boots' = boots + 1
    /\ commands' = registerCommands([n \in {} |-> NoHandler], BuiltinCommands)
    /\ started' = FALSE
    /\ UNCHANGED <<file, sink, now, inv, running, messagesProcessed, errors, unhandled,
                   events, removedCount, exitTimer, pm, mq>>

\* SIGINT or SIGTERM: StateManager.onShutdown() of the signal handler
OnShutdown(ok) ==
    /\ proc = "up"
    /\ running = NoSlot
    /\ saveInterval' = clearInterval(saveInterval)
    /\ Write(ok)
    /\ proc' = "stopping"
    /\ UNCHANGED <<states, heap, commands, started, now, inv, running, messagesProcessed,
                   errors, unhandled, events, removedCount, exitTimer, boots, pm, mq>>

\* `reiniciar` and `limparSessao` up to the awaited notice; only `reiniciar`
\* asks for the owner
Restart(i) ==
    /\ InHandler(i, {"reiniciar", "limparSessao"})
    /\ LET rec == inv[i] IN
       IF rec.h = "reiniciar" /\ ~isOwner(rec.msg.sender)
       THEN Commit(i, [rec EXCEPT !.pc = "tail", !.suspended = TRUE,
                                  !.out = Append(@, "notOwner")], Store)
       ELSE Commit(i, [rec EXCEPT !.pc = "restart", !.suspended = TRUE,
                                  !.out = Append(@, "restarting")], Store)
    /\ UNCHANGED errors /\ Frame /\ UNCHANGED unhandled

\* the notice settled: setTimeout(() => process.exit(0), 5000), or the
\* rejection reaches the router's catch
RestartSent(i, ok) ==
    /\ inv[i].pc = "restart"
    /\ running = NoSlot
    /\ Commit(i, IF ok THEN Returned(inv[i], commands) ELSE Thrown(inv[i]),
               IF ok THEN Store ELSE CatchStore(inv[i], Store))
    /\ errors' = IF ok THEN errors ELSE errors + 1
    /\ exitTimer' = (exitTimer \/ ok)
    /\ UNCHANGED <<file, commands, started, now, messagesProcessed, events, removedCount,
                   unhandled, sink, saveInterval, proc, boots, pm, mq>>

\* process.exit(0): the last line of a signal handler, or the timeout of
\* `reiniciar` / `limparSessao`.  Nothing of the process survives but the file.
Exit ==
    /\ running = NoSlot
    /\ \/ proc = "stopping"
       \/ proc = "up" /\ exitTimer
    /\ proc' = "down"
    /\ states' = NoStates.states
    /\ heap' = NoStates.heap
    /\ inv' = [i \in Slots |-> IdleInv]
    /\ saveInterval' = FALSE
    /\ exitTimer' = FALSE
    /\ messagesProcessed' = 0
    /\ errors' = 0
    /\ UNCHANGED <<file, sink, commands, started, now, running, unhandled, events,
                   removedCount, boots, pm, mq>>

PersistInbound ==
    { Text(U1, TRUE, <<"q">>), Text(Owner, TRUE, <<"reiniciar">>),
      Text(U1, TRUE, <<"reiniciar">>), Text(U1, TRUE, <<"limparsessao">>) }

PersistInit ==
    /\ sink \in {"absent", "corrupt", "json"}
    /\ file \in IF sink = "json" THEN FirstImages ELSE {NoFile}
    /\ states = NoStates.states
    /\ heap = NoStates.heap
    /\ commands = registerCommands([n \in {} |-> NoHandler], BuiltinCommands)
    /\ started = FALSE
    /\ now = 0
    /\ inv = [i \in Slots |-> IdleInv]
    /\ running = NoSlot
    /\ messagesProcessed = 0
    /\ errors = 0
    /\ unhandled = 0
    /\ events = 0
    /\ removedCount = 0
    /\ saveInterval = FALSE
    /\ proc = "down"
    /\ exitTimer = FALSE
    /\ boots = 0
    /\ mq = IdleQueue
    /\ pm = LoadedPlugins

PersistNext ==
    \/ Start
    \/ proc = "up" /\ RegisterPluginCommands
    \/ proc = "up" /\ \E m \in PersistInbound : Receive(m)
    \/ proc = "up" /\ \E i \in Slots, step \in Steps, data \in {Some(DataA), Some(DataU)} :
                          HCreate(i, step, data)
    \/ proc = "up" /\ \E i \in Slots, step \in Steps, data \in Patches : HUpdate(i, step, data)
    \/ proc = "up" /\ \E i \in Slots : HClear(i)
    \/ proc = "up" /\ \E i \in Slots : HSend(i)
    \/ proc = "up" /\ \E i \in Slots : HReturn(i)
    \/ proc = "up" /\ \E i \in Slots : Restart(i)
    \/ proc = "up" /\ \E i \in Slots, ok \in BOOLEAN : RestartSent(i, ok)
    \/ proc = "up" /\ \E i \in Slots, ok \in BOOLEAN : SendSettles(i, ok)
    \/ proc = "up" /\ \E i \in Slots, ok \in BOOLEAN : NotifyDone(i, ok)
    \/ \E ok \in BOOLEAN : AutoSave(ok)
    \/ \E ok \in BOOLEAN : OnShutdown(ok)
    \/ Exit
    \/ proc = "up" /\ Tick

PersistSpec == PersistInit /\ [][PersistNext]_vars

-----------------------------------------------------------------------------
(* The owner's view of the store: `estados listar` and `estados limpartodos` *)
(* next to flows that plugins start, the empty step name among their steps.  *)

AdminInbound ==
    { Text(U1, TRUE, <<"q">>), Text(Owner, TRUE, <<"q">>),
      Text(Owner, TRUE, <<"estados", "listar">>),
      Text(Owner, TRUE, <<"estados", "limpartodos">>) }

AdminNext ==
    \/ \E m \in AdminInbound : Receive(m)
    \/ \E i \in Slots, step \in {"ask", ""} : HCreate(i, step, Undefined)
    \/ \E i \in Slots : HReturn(i)
    \/ \E i \in Slots : Estados(i)
    \/ \E i \in Slots, ok \in BOOLEAN : SendSettles(i, ok)
    \/ \E i \in Slots, ok \in BOOLEAN : NotifyDone(i, ok)
    \/ RegisterPluginCommands

AdminSpec == Init /\ [][AdminNext]_vars

-----------------------------------------------------------------------------
(* The PluginManager on its own: loadPlugins over a directory, then          *)
(* initializePlugins, the registration of the commands, and shutdownPlugins. *)

\* a variant whose loop ends at the first initialize that throws
initializeCaught_Abort(threw) == ~threw

\* lines 135-140: the try/catch is inside the loop
initializeCaught(threw) == TRUE

\* what keeps a candidate out of the Map: import() rejects, the constructor
\* throws, or one of the checks of lines 92-116 fails
LoadFaults == {"import", "construct", "shape"}

\* one round of the loop of loadPlugins: loadPlugin(itemPath)
LoadPlugin ==
    /\ pm.stage = "load"
    /\ pm' = IF pm.at > Len(pm.items)
             THEN [pm EXCEPT !.stage = "init", !.at = 1]
             ELSE [pm EXCEPT !.at = @ + 1,
                             !.plugins = IF pm.items[pm.at].fault \in LoadFaults
                                         THEN @
                                         ELSE Append(@, pm.items[pm.at].name)]
    /\ UNCHANGED <<states, heap, file, commands, started, now, inv, running,
                   messagesProcessed, errors, unhandled, events, removedCount,
                   sink, saveInterval, proc, exitTimer, boots, mq>>

\* one round of the loop of initializePlugins
InitializePlugin ==
    /\ pm.stage = "init"
    /\ pm' = IF pm.at > Len(pm.plugins)
             THEN [pm EXCEPT !.stage = "collect", !.at = 1]
             ELSE LET threw == pm.items[CHOOSE i \in 1..Len(pm.items) :
                                          pm.items[i].name = pm.plugins[pm.at]].fault
                                 = "initialize"
                  IN [pm EXCEPT !.initialized = Append(@, pm.plugins[pm.at]),
                                !.at = @ + 1,
                                !.stage = IF initializeCaught(threw) THEN @ ELSE "off"]
    /\ UNCHANGED <<states, heap, file, commands, started, now, inv, running,
                   messagesProcessed, errors, unhandled, events, removedCount,
                   sink, saveInterval, proc, exitTimer, boots, mq>>

\* SIGINT or SIGTERM reaches the handler of index.ts
Signal ==
    /\ pm.stage = "collect"
    /\ pm' = [pm EXCEPT !.stage = "shutdown", !.at = 1]
    /\ UNCHANGED <<states, heap, file, commands, started, now, inv, running,
                   messagesProcessed, errors, unhandled, events, removedCount,
                   sink, saveInterval, proc, exitTimer, boots, mq>>

\* one round of the loop of shutdownPlugins; a throw is caught inside the loop
ShutdownPlugin ==
    /\ pm.stage = "shutdown"
    /\ pm' = IF pm.at > Len(pm.plugins)
             THEN [pm EXCEPT !.stage = "off", !.at = 1]
             ELSE [pm EXCEPT !.down = Append(@, pm.plugins[pm.at]), !.at = @ + 1]
    /\ UNCHANGED <<states, heap, file, commands, started, now, inv, running,
                   messagesProcessed, errors, unhandled, events, removedCount,
                   sink, saveInterval, proc, exitTimer, boots, mq>>

\* a plugins directory of three candidates, each with at most one thing that
\* goes wrong, and config.plugins.enabled / disabled
PluginInit ==
    /\ pm \in [items : { <<[name |-> "extra", fault |-> f1], [name |-> "form", fault |-> f2],
                           [name |-> "quiz", fault |-> f3]>> :
                          f1 \in {"none", "import", "shape"},
                          f2 \in {"none", "construct", "initialize", "onShutdown"},
                          f3 \in {"none", "initialize"} },
                enabled : {{}, {"form"}}, disabled : {{}, {"quiz"}},
                stage : {"load"}, at : {1},
                plugins : {<<>>}, initialized : {<<>>}, down : {<<>>}]
    /\ file = NoFile
    /\ sink = "absent"
    /\ states = NoStates.states
    /\ heap = NoStates.heap
    /\ commands = registerCommands([n \in {} |-> NoHandler], BuiltinCommands)
    /\ started = FALSE
    /\ now = 0
    /\ inv = [i \in Slots |-> IdleInv]
    /\ running = NoSlot
    /\ messagesProcessed = 0
    /\ errors = 0
    /\ unhandled = 0
    /\ events = 0
    /\ removedCount = 0
    /\ saveInterval = TRUE
    /\ proc = "up"
    /\ exitTimer = FALSE
    /\ boots = 1
    /\ mq = IdleQueue

PluginNext ==
    \/ LoadPlugin
    \/ InitializePlugin
    \/ pm.stage = "collect" /\ RegisterPluginCommands
    \/ Signal
    \/ ShutdownPlugin

PluginSpec == PluginInit /\ [][PluginNext]_vars

-----------------------------------------------------------------------------
(* MessageQueue: the calls and the awaits of its loop *)

MaxEnqueue == 4

\* setSocket(sock)
SetSocket ==
    /\ mq' = [mq EXCEPT !.sock = TRUE]
    /\ UNCHANGED <<states, heap, file, commands, started, now, inv, running,
                   messagesProcessed, errors, unhandled, events, removedCount,
                   sink, saveInterval, proc, exitTimer, boots, pm>>

\* sendMessage / sendStatus / sendCommandResponse: one enqueue call
Enqueue(priority) ==
    /\ mq.enqueued < MaxEnqueue
    /\ mq' = enqueue(mq, priority)
    /\ UNCHANGED <<states, heap, file, commands, started, now, inv, running,
                   messagesProcessed, errors, unhandled, events, removedCount,
                   sink, saveInterval, proc, exitTimer, boots, pm>>

\* `await this.sock.sendMessage(...)` settles: on to the delay, or into the
\* catch, which logs and goes round the loop
SendMessageSettles(l, ok) ==
    /\ l \in mq.loops
    /\ l.pc = "send"
    /\ mq' = IF ok
             THEN [mq EXCEPT !.loops = (mq.loops \ {l}) \cup {[l EXCEPT !.pc = "delay"]}]
             ELSE shift(mq, {l})
    /\ UNCHANGED <<states, heap, file, commands, started, now, inv, running,
                   messagesProcessed, errors, unhandled, events, removedCount,
                   sink, saveInterval, proc, exitTimer, boots, pm>>

\* the timer of `await new Promise(resolve => setTimeout(resolve, delay))`
DelayElapses(l) ==
    /\ l \in mq.loops
    /\ l.pc = "delay"
    /\ mq' = shift(mq, {l})
    /\ UNCHANGED <<states, heap, file, commands, started, now, inv, running,
                   messagesProcessed, errors, unhandled, events, removedCount,
                   sink, saveInterval, proc, exitTimer, boots, pm>>

QueueInit ==
    /\ file = NoFile
    /\ Init

QueueNext ==
    \/ SetSocket
    \/ \E priority \in Priorities : Enqueue(priority)
    \/ \E l \in mq.loops, ok \in BOOLEAN : SendMessageSettles(l, ok)
    \/ \E l \in mq.loops : DelayElapses(l)

\* the socket is set once the connection is made, a send settles and a timer
\* fires; nothing obliges anyone to call enqueue again
QueueSpec ==
    /\ QueueInit
    /\ [][QueueNext]_vars
    /\ WF_vars(SetSocket)
    /\ WF_vars(\E l \in mq.loops, ok \in BOOLEAN : SendMessageSettles(l, ok))
    /\ WF_vars(\E l \in mq.loops : DelayElapses(l))

-----------------------------------------------------------------------------
(* The form flow, a group chat and events that carry several messages *)

\* states.json holding the form of U1 at each of its steps
FlowImages ==
    LET d0 == [formType |-> At("default"), data |-> Map(EmptyData)]
        d1 == Spread(d0, [name |-> At("Ana")])
        d2 == Spread(d1, [email |-> At("ana@x.com")])
        d3 == Spread(d2, [age |-> At("30")])
        image(step, d) == JSONstringify(U1 :> [pluginName |-> "form", currentState |-> step,
                                               createdAt |-> 0, updatedAt |-> 0, data |-> d])
    IN {NoFile, image("name", d0), image("email", d1), image("age", d2), image("confirm", d3)}

\* key.participant of a group member who only ever writes free text
ParticipantB == "5531@s.whatsapp.net"

\* 'messages.upsert' events: m.messages
FlowEvents ==
    { <<Text(U1, FALSE, <<w>>)>> :
        w \in {"Ana", "Al", "cancelar", "CANCELAR", "not-an-email", "ana@x", "ana@x.com",
               "30", "abc", "Confirmar", "talvez"} }
    \cup { <<Text(U1, TRUE, <<w>>)>> : w \in {"cancelar", "state:form:name"} }
    \cup { <<GroupText("5521@s.whatsapp.net", TRUE, <<"quiz">>)>>,
           <<GroupText(ParticipantB, FALSE, <<"hello">>)>> }
    \cup { <<Text(U1, FALSE, <<"Ana">>), Text(U1, FALSE, <<"ana@x.com">>)>> }

\* lines 28-35: handleMessage looks at m.messages[0]
Upsert(e) ==
    /\ Len(e) > 0
    /\ Receive(e[1])

FlowInit ==
    /\ file \in FlowImages
    /\ sink = IF file = NoFile THEN "absent" ELSE "json"
    /\ states = readStates(sink, file).states
    /\ heap = readStates(sink, file).heap
    /\ saveInterval = TRUE
    /\ proc = "up"
    /\ exitTimer = FALSE
    /\ boots = 1
    /\ pm = LoadedPlugins
    /\ mq = IdleQueue
    /\ commands = registerCommands([n \in {} |-> NoHandler], BuiltinCommands)
    /\ started = FALSE
    /\ now = 0
    /\ inv = [i \in Slots |-> IdleInv]
    /\ running = NoSlot
    /\ messagesProcessed = 0
    /\ errors = 0
    /\ unhandled = 0
    /\ events = 0
    /\ removedCount = 0

FlowNext ==
    \/ \E e \in FlowEvents : Upsert(e)
    \/ \E i \in Slots : FormStep(i)
    \/ \E i \in Slots : HCreate(i, "ask", Undefined)
    \/ \E i \in Slots : HReturn(i)
    \/ \E i \in Slots, ok \in BOOLEAN : SendSettles(i, ok)
    \/ \E i \in Slots, ok \in BOOLEAN : NotifyDone(i, ok)
    \/ RegisterPluginCommands
    \/ Tick

FlowSpec == FlowInit /\ [][FlowNext]_vars

-----------------------------------------------------------------------------
(* Properties *)

Sender(i) == inv[i].msg.sender

InSeq(x, seq) == \E n \in 1..Len(seq) : seq[n] = x

\* the name the router builds at line 69 for the state of user u
StateNameOf(u) == StateCommandName(heap[states[u]].pluginName, heap[states[u]].currentState)

PatchOf(data) == IF data.some THEN data.val ELSE EmptyData

RECURSIVE DeepMerge(_, _)
DeepMerge(a, b) ==
    [k \in (DOMAIN a) \cup (DOMAIN b) |->
        IF k \notin DOMAIN b THEN a[k]
        ELSE IF k \notin DOMAIN a THEN b[k]
        ELSE IF a[k].t = "map" /\ b[k].t = "map" THEN Map(DeepMerge(a[k].m, b[k].m))
        ELSE b[k]]

\* C1 (as claimed): a createState made through a FlowContext for an owner other
\* than the owner of the user's existing state changes nothing, so the owner of
\* a user's state never changes while the state stays in the store.
C1_CreateByOtherOwnerIsNoOp ==
    [][ /\ \A i \in Slots, step \in Steps, data \in CreatePayloads :
             ( /\ HCreate(i, step, data)
               /\ states[Sender(i)] # NoObj
               /\ heap[states[Sender(i)]].pluginName # ContextOwner(inv[i], heap) )
             => ( /\ states'[Sender(i)] = states[Sender(i)]
                  /\ heap'[states[Sender(i)]] = heap[states[Sender(i)]] )
        /\ \A u \in Users :
             (states[u] # NoObj /\ states'[u] # NoObj)
             => heap'[states'[u]].pluginName = heap[states[u]].pluginName ]_vars

\* C2 (as claimed): every message of a user who has a state goes to the step
\* handler of that state, with the text unchanged, and not to a command.
C2_StateAlwaysFirst ==
    [][ \A m \in Inbound :
          (Receive(m) /\ states[m.sender] # NoObj)
          => LET r == inv'[FreeSlot] IN
             /\ r.route = "state"
             /\ r.name = StateNameOf(m.sender)
             /\ r.invoked = <<r.name>>
             /\ r.msg = m /\ r.args = m.words ]_vars

\* C2 (amended): every message of a user whose state has a registered step
\* handler goes to that handler, with the text unchanged (prefix included), and
\* is not dispatched as an interactive reply or a command.
C2_RegisteredStateFirst ==
    [][ \A m \in Inbound :
          (Receive(m) /\ states[m.sender] # NoObj /\ has(commands, StateNameOf(m.sender)))
          => LET r == inv'[FreeSlot] IN
             /\ r.route = "state"
             /\ r.name = StateNameOf(m.sender)
             /\ r.h = commands[r.name]
             /\ r.invoked = <<r.name>>
             /\ r.msg = m /\ r.args = m.words ]_vars

\* a prefixed message is in the hands of a step handler
C2_Witness ==
    \E i \in Slots :
        /\ inv[i].pc = "handler" /\ inv[i].route = "state"
        /\ inv[i].msg.pfx /\ inv[i].ops = 0

\* C3: at most one registered handler is invoked for a message, and a message
\* that reached a step handler gets no command handler and no 'unknown command'
\* notice, whether the step handler returned or threw.
C3_StateInputOrCommand ==
    \A i \in Slots :
        /\ Len(inv[i].invoked) <= 1
        /\ (inv[i].invoked # <<>> /\ Head(inv[i].invoked)[1] = "state")
           => (inv[i].route = "state" /\ ~InSeq("unknown", inv[i].out))

\* a step handler threw and the router is sending the failure notice
C3_Witness ==
    \E i \in Slots :
        /\ inv[i].route = "state" /\ inv[i].pc = "notify"
        /\ inv[i].errs = 1 /\ inv[i].msg.pfx

\* C4 (as claimed): `!form` from a user without a state gets a FlowContext and
\* leaves the user in step `name` of the form flow.
C4_FormStartsFlow ==
    \A i \in Slots :
        (inv[i].h = "form.start" /\ inv[i].pc = "tail" /\ inv[i].userState = NoObj)
        => /\ inv[i].ctx = "flow"
           /\ states[Sender(i)] # NoObj
           /\ heap[states[Sender(i)]].currentState = "name"

\* C5 (as claimed): createState from a command handler, for a user without a
\* state, stores the step, the payload and the name of the handler's plugin.
C5_CreateStoresCallerPlugin ==
    [][ \A i \in Slots, step \in Steps, data \in CreatePayloads :
          (HCreate(i, step, data) /\ inv[i].ctx = "flow" /\ states[Sender(i)] = NoObj)
          => /\ states'[Sender(i)] # NoObj
             /\ heap'[states'[Sender(i)]].currentState = step
             /\ heap'[states'[Sender(i)]].data = PatchOf(data)
             /\ heap'[states'[Sender(i)]].pluginName = PluginOf(inv[i].h) ]_vars

\* C6 (as claimed): a successful updateState keeps owner and createdAt, sets the
\* step and deep-merges the patch at every nesting level.
C6_UpdateDeepMerges ==
    [][ \A i \in Slots, step \in Steps, data \in Patches :
          (HUpdate(i, step, data) /\ inv'[i].lastRet)
          => LET old == heap[states[Sender(i)]]
                 new == heap'[states'[Sender(i)]]
             IN /\ states'[Sender(i)] = states[Sender(i)]
                /\ new.pluginName = old.pluginName
                /\ new.createdAt = old.createdAt
                /\ new.currentState = step
                /\ new.data = DeepMerge(old.data, PatchOf(data)) ]_vars

\* C6 (amended): a successful updateState keeps owner and createdAt, sets the
\* step and merges the patch at the top level only: a key of the patch takes the
\* patch's value whole, a key absent from the patch keeps its value.
C6_UpdateMergesTopLevel ==
    [][ \A i \in Slots, step \in Steps, data \in Patches :
          (HUpdate(i, step, data) /\ inv'[i].lastRet)
          => LET old == heap[states[Sender(i)]]
                 new == heap'[states'[Sender(i)]]
                 patch == PatchOf(data)
             IN /\ states'[Sender(i)] = states[Sender(i)]
                /\ new.pluginName = old.pluginName
                /\ new.createdAt = old.createdAt
                /\ new.currentState = step
                /\ DOMAIN new.data = (DOMAIN old.data) \cup (DOMAIN patch)
                /\ \A k \in DOMAIN patch : new.data[k] = patch[k]
                /\ \A k \in (DOMAIN old.data) \ (DOMAIN patch) : new.data[k] = old.data[k] ]_vars

\* an update replaced the nested `cfg` whole and kept the key `step`
C6_Witness ==
    \E i \in Slots :
        /\ inv[i].lastOp = "update" /\ inv[i].lastRet
        /\ states[Sender(i)] # NoObj
        /\ heap[states[Sender(i)]].data = [cfg |-> Map([y |-> At("2")]), step |-> At("1")]
        /\ heap[states[Sender(i)]].currentState = "end"

\* C7 (as claimed): FlowContext.updateState returns true exactly when the user
\* has a state at the moment of the call, and changes nothing when it returns
\* false.
C7_UpdateReturnsHasState ==
    [][ \A i \in Slots, step \in Steps, data \in Patches :
          HUpdate(i, step, data)
          => /\ inv'[i].lastRet = (states[Sender(i)] # NoObj)
             /\ ~inv'[i].lastRet => (states' = states /\ heap' = heap) ]_vars

\* C8 (as claimed): a successful update leaves lastActivityAt at the time of the
\* call.
C8_UpdateRefreshesActivity ==
    [][ \A i \in Slots, step \in Steps, data \in Patches :
          (HUpdate(i, step, data) /\ inv'[i].lastRet)
          => heap'[states'[Sender(i)]].updatedAt >= now ]_vars

\* the user that `estados limpar <arg>` clears
LimparTarget(i) ==
    IF IncludesAt(inv[i].args[2]) THEN inv[i].args[2] ELSE WithUserSuffix(inv[i].args[2])

IsLimpar(i) ==
    /\ inv[i].h = "estados" /\ isOwner(Sender(i))
    /\ Len(inv[i].args) >= 2 /\ toLowerCase(inv[i].args[1]) = "limpar"

ClearContract(u, ret) ==
    /\ ret = (states[u] # NoObj)
    /\ states'[u] = NoObj
    /\ states[u] = NoObj => (states' = states /\ heap' = heap)
    /\ \A v \in Users \ {u} :
         /\ states'[v] = states[v]
         /\ states[v] # NoObj => heap'[states[v]] = heap[states[v]]

\* C9: clearState returns whether the user had a state, leaves the user without
\* one and changes nothing else; `estados limpar` answers with the success
\* notice when there was a state and with 'no active state' when there was
\* none, so a clear that follows a clear is answered 'no active state'.
C9_ClearContract ==
    [][ /\ \A i \in Slots : HClear(i) => ClearContract(Sender(i), inv'[i].lastRet)
        /\ \A i \in Slots :
             (Estados(i) /\ IsLimpar(i))
             => /\ ClearContract(LimparTarget(i), inv'[i].lastRet)
                /\ inv'[i].out = <<IF states[LimparTarget(i)] # NoObj
                                   THEN "cleared" ELSE "noActiveState">> ]_vars

\* two clears of the same user in a row: the first found a state, the second none
C9_Witness ==
    \E i, j \in Slots :
        /\ inv[i].lastOp = "limpar" /\ inv[i].lastRet /\ inv[i].out = <<"cleared">>
        /\ inv[j].lastOp = "limpar" /\ ~inv[j].lastRet /\ inv[j].out = <<"noActiveState">>
        /\ LimparTarget(i) = LimparTarget(j)
        /\ states[LimparTarget(i)] = NoObj

\* C10: a message of a user who has a state sets that state's lastActivityAt to
\* the arrival time in the step that routes it, before any handler code runs,
\* and handler return, handler failure or a missing handler never set it back.
C10_ArrivalRefreshes ==
    /\ [][ \A m \in Inbound :
             (Receive(m) /\ states[m.sender] # NoObj)
             => /\ states'[m.sender] = states[m.sender]
                /\ heap'[states[m.sender]].updatedAt = now
                /\ inv'[FreeSlot].ops = 0 ]_vars
    /\ [](\A i \in Slots :
             (inv[i].pc # "idle" /\ inv[i].userState # NoObj)
             => heap[inv[i].userState].updatedAt >= inv[i].arrival)

\* a step handler threw after the arrival at time 1 refreshed a state of time 0
C10_Witness ==
    \E i \in Slots :
        /\ inv[i].route = "state" /\ inv[i].pc = "notify" /\ inv[i].errs = 1
        /\ inv[i].arrival = 1 /\ heap[inv[i].userState].createdAt = 0
        /\ heap[inv[i].userState].updatedAt = 1

\* C11 (as claimed): every stored state names a registered step handler
\* `state:<owner>:<step>`, after any createState or updateState and for the
\* states loaded from the file at startup.
C11_StateHandlerRegistered ==
    \A u \in Users : states[u] # NoObj => has(commands, StateNameOf(u))

\* C12: a message of a user whose state names no registered handler raises no
\* error; it goes on to the interactive-reply check and to command dispatch as
\* a message outside any flow, and routing leaves the state's owner, step and
\* payload as they were.
C12_MissingHandlerFailsSoft ==
    [][ \A m \in Inbound :
          (Receive(m) /\ states[m.sender] # NoObj /\ ~has(commands, StateNameOf(m.sender)))
          => LET r == inv'[FreeSlot]
                 old == heap[states[m.sender]]
                 new == heap'[states'[m.sender]]
                 key == IF m.words = <<>> THEN <<"">>
                        ELSE ColonSplit(toLowerCase(Head(m.words)))
             IN /\ errors' = errors
                /\ r.errs = 0 /\ r.route # "state"
                /\ states'[m.sender] = states[m.sender]
                /\ new.pluginName = old.pluginName
                /\ new.currentState = old.currentState
                /\ new.data = old.data
                /\ (m.kind = "button" /\ m.selectedId # "") => r.out = <<"selected">>
                /\ (m.kind = "text" /\ m.pfx /\ has(commands, key))
                   => (r.route = "command" /\ r.invoked = <<key>> /\ r.pc = "handler")
                /\ (m.kind = "text" /\ m.pfx /\ ~has(commands, key)) => r.out = <<"unknown">>
                /\ (m.kind = "text" /\ ~m.pfx) => r = IdleInv ]_vars

\* a command handler runs for a user whose state has no registered handler
C12_Witness ==
    \E i \in Slots :
        /\ inv[i].pc = "handler" /\ inv[i].route = "command"
        /\ inv[i].userState # NoObj /\ inv[i].ops = 0
        /\ states[Sender(i)] = inv[i].userState

\* number of failure notices the router has attempted for an invocation
ErrorNotices(rec) == Cardinality({n \in 1..Len(rec.out) : rec.out[n] = "error"})

\* C13: a throw of a step handler or of a command handler (a rejected send of
\* the handler included) adds exactly one to the error counter and makes the
\* router attempt exactly one failure notice; whether that notice is delivered
\* or rejected, handleMessage then completes, the counter is not touched again
\* and no rejection leaves handleMessage.
C13_HandlerFailureIsContained ==
    /\ [][ /\ \A i \in Slots :
                (HThrow(i) \/ SendSettles(i, FALSE))
                => /\ errors' = errors + 1
                   /\ unhandled' = unhandled
                   /\ inv'[i].pc = "notify"
                   /\ inv'[i].out = Append(inv[i].out, "error")
           /\ \A i \in Slots, ok \in BOOLEAN :
                NotifyDone(i, ok)
                => /\ inv'[i] = IdleInv
                   /\ errors' = errors
                   /\ unhandled' = unhandled ]_vars
    /\ [](/\ unhandled = 0
          /\ \A i \in Slots : ErrorNotices(inv[i]) = inv[i].errs /\ inv[i].errs <= 1)

\* a step handler and a command handler have both thrown and both notices are
\* still outstanding
C13_Witness ==
    \E i, j \in Slots :
        /\ inv[i].pc = "notify" /\ inv[i].route = "state" /\ inv[i].errs = 1
        /\ inv[j].pc = "notify" /\ inv[j].route = "command" /\ inv[j].errs = 1
        /\ errors = 2

\* the store holds the same entries with the same contents after the step
StoreKept ==
    /\ states' = states
    /\ \A u \in Users : states[u] # NoObj => heap'[states[u]] = heap[states[u]]

\* C14: when a handler throws, and while the router then notifies the sender
\* and completes, the store keeps every entry exactly as the handler's calls
\* left it: nothing is rolled back and no step is changed on the error path.
C14_NoRollbackOnThrow ==
    [][ /\ \A i \in Slots : (HThrow(i) \/ SendSettles(i, FALSE)) => StoreKept
        /\ \A i \in Slots, ok \in BOOLEAN :
             (NotifyDone(i, ok) /\ inv[i].errs > 0) => StoreKept ]_vars

\* the only message so far reached the step handler of quiz/ask, which updated
\* the state to step `end` with a patch and then threw
C14_Witness ==
    \E i \in Slots :
        /\ messagesProcessed = 1
        /\ inv[i].pc = "notify" /\ inv[i].route = "state" /\ inv[i].errs = 1
        /\ states[Sender(i)] = inv[i].userState
        /\ heap[inv[i].userState].currentState = "end"
        /\ heap[inv[i].userState].data = Spread(DataA, DataB)

\* the registry key of the command a prefixed text names
CommandKey(m) ==
    IF m.words = <<>> THEN <<"">> ELSE ColonSplit(toLowerCase(Head(m.words)))

UnknownCommand(m) == m.kind = "text" /\ m.pfx /\ ~has(commands, CommandKey(m))

\* every entry of the store is the same object with the same owner, step,
\* payload and creation time after the step
FlowsKept ==
    /\ states' = states
    /\ \A u \in Users :
         states[u] # NoObj
         => /\ heap'[states[u]].pluginName = heap[states[u]].pluginName
            /\ heap'[states[u]].currentState = heap[states[u]].currentState
            /\ heap'[states[u]].data = heap[states[u]].data
            /\ heap'[states[u]].createdAt = heap[states[u]].createdAt

\* C15 (as claimed): a prefixed message with an unregistered command name
\* invokes no handler, gets exactly one 'not recognized' notice and changes no
\* state of any user.
C15_UnknownCommandAlwaysNoticed ==
    [][ \A m \in Inbound :
          (Receive(m) /\ UnknownCommand(m))
          => /\ inv'[FreeSlot].invoked = <<>>
             /\ inv'[FreeSlot].out = <<"unknown">>
             /\ errors' = errors
             /\ states' = states
             /\ \A u \in Users : states[u] # NoObj => heap'[states[u]] = heap[states[u]] ]_vars

\* C15 (amended): a prefixed message with an unregistered command name, from a
\* sender who has no state with a registered step handler, raises no error,
\* invokes no handler and gets exactly one 'not recognized' notice; no state is
\* created, removed or changed in owner, step or payload, and the only write is
\* the arrival refresh of the sender's own lastActivityAt.
C15_UnknownCommandOutsideFlow ==
    [][ /\ \A m \in Inbound :
             ( /\ Receive(m) /\ UnknownCommand(m)
               /\ (states[m.sender] = NoObj \/ ~has(commands, StateNameOf(m.sender))) )
             => /\ inv'[FreeSlot].route = "unknown"
                /\ inv'[FreeSlot].pc = "notify"
                /\ inv'[FreeSlot].invoked = <<>>
                /\ inv'[FreeSlot].out = <<"unknown">>
                /\ inv'[FreeSlot].errs = 0
                /\ errors' = errors /\ unhandled' = unhandled
                /\ FlowsKept
                /\ \A u \in Users \ {m.sender} :
                     states[u] # NoObj => heap'[states[u]] = heap[states[u]]
        /\ \A i \in Slots, ok \in BOOLEAN :
             (NotifyDone(i, ok) /\ inv[i].route = "unknown")
             => /\ inv[i].out = <<"unknown">> /\ inv[i].invoked = <<>>
                /\ inv'[i] = IdleInv
                /\ errors' = errors /\ unhandled' = unhandled
                /\ states' = states
                /\ \A u \in Users : states[u] # NoObj => heap'[states[u]] = heap[states[u]] ]_vars

\* the notice for `!nope` is outstanding for a sender whose state names no
\* registered handler
C15_Witness ==
    \E i \in Slots :
        /\ inv[i].route = "unknown" /\ inv[i].pc = "notify"
        /\ inv[i].out = <<"unknown">> /\ inv[i].commandName = "nope"
        /\ inv[i].userState # NoObj

\* C16: an event without messages, a message without key or remote id, a
\* status broadcast and a message without body are dropped with no effect: no
\* handler runs, nothing is sent, the store (lastActivityAt included) and the
\* message and error counters stay as they were.
C16_IgnoreHasNoEffect ==
    [][ \A e \in Dropped :
          Ignore(e)
          => /\ inv' = inv /\ running' = running
             /\ states' = states /\ heap' = heap
             /\ messagesProcessed' = messagesProcessed
             /\ errors' = errors /\ unhandled' = unhandled
             /\ commands' = commands ]_vars

\* an event was dropped at time 1 while a user holds a state last active at 0
C16_Witness ==
    /\ events > messagesProcessed
    /\ now = 1
    /\ \E u \in Users : states[u] # NoObj /\ heap[states[u]].updatedAt = 0
    /\ \A i \in Slots : inv[i] = IdleInv

\* what the handler of invocation i reads through `params.state`
SeenThroughState(hp, i) ==
    [currentState |-> hp[inv[i].userState].currentState, data |-> hp[inv[i].userState].data]

\* C17 (as claimed): `state` is a snapshot taken at dispatch: createState,
\* updateState and clearState calls of the same invocation leave the step and
\* the payload read through it as they were.
C17_StateIsSnapshot ==
    [][ \A i \in Slots :
          ( /\ inv[i].userState # NoObj
            /\ \/ \E step \in Steps, data \in Patches : HUpdate(i, step, data)
               \/ \E step \in Steps, data \in CreatePayloads : HCreate(i, step, data)
               \/ HClear(i) )
          => SeenThroughState(heap', i) = SeenThroughState(heap, i) ]_vars

\* handleMessage invocations that have started and not yet completed
InProgress == {i \in Slots : inv[i].pc # "idle"}

\* C18 (as claimed): messages are dispatched one at a time: the routing of a
\* message never starts while an earlier invocation is suspended on I/O, so at
\* most one invocation is in progress.
C18_OneInvocationAtATime ==
    /\ [][ \A m \in Inbound : Receive(m) => InProgress = {} ]_vars
    /\ [](Cardinality(InProgress) <= 1)

\* the entries a sweep with threshold h (hours) is to remove at time `now`
OlderThan(h) ==
    {u \in Users : states[u] # NoObj /\ now - heap[states[u]].updatedAt > h}

\* C19 (as claimed): for every number h the caller passes, cleanupOldStates(h)
\* removes exactly the states last active more than h hours ago, returns how
\* many it removed and leaves every other state as it was.
C19_SweepRemovesExactlyOlderThan ==
    [][ \A h \in Thresholds :
          (Sweep(h) /\ h.some)
          => /\ \A u \in OlderThan(h.val) : states'[u] = NoObj
             /\ \A u \in Users \ OlderThan(h.val) :
                  /\ states'[u] = states[u]
                  /\ states[u] # NoObj => heap'[states[u]] = heap[states[u]]
             /\ removedCount' = Cardinality(OlderThan(h.val)) ]_vars

\* C20 (as claimed): a state that has become older than the configured maximum
\* age is eventually removed while the process runs, without any message or
\* administrator action.
C20_StaleStateEventuallyRemoved ==
    \A u \in Users :
        [](u \in OlderThan(maxAgeHours) => <>(states[u] = NoObj))

-----------------------------------------------------------------------------
(* Persistence *)

\* this.states.entries(): the Map as a mapping from user to state
Entries(S) == [u \in {v \in Users : S.states[v] # NoObj} |-> S.heap[S.states[u]]]

\* a payload value that JSON can express: a scalar or a nested mapping of them
RECURSIVE JsonValue(_)
JsonValue(v) ==
    \/ v.t = "atom"
    \/ v.t = "map" /\ \A k \in DOMAIN v.m : JsonValue(v.m[k])

JsonPayloads(S) ==
    \A u \in DOMAIN Entries(S) : \A k \in DOMAIN Entries(S)[u].data :
        JsonValue(Entries(S)[u].data[k])

\* a step that writes the whole document
Persisted == AutoSave(TRUE) \/ OnShutdown(TRUE)

C22_LoadNeverFails ==
    [][Start => /\ proc' = "up"
                /\ saveInterval'
                /\ sink # "json" => \A u \in Users : states'[u] = NoObj]_vars

\* started on an unusable sink, the store took a new flow
C22_Witness ==
    /\ boots = 1
    /\ proc = "up"
    /\ sink = "corrupt"
    /\ states[U1] # NoObj
    /\ heap[states[U1]].pluginName = "q"

\* C23: a write that fails during a timer persist does not leave saveStates,
\* changes nothing in memory and leaves the timer armed; a later cycle that
\* succeeds writes the map as it is then.
C23_FailedPersistIsContained ==
    /\ [][AutoSave(FALSE) => /\ states' = states
                             /\ heap' = heap
                             /\ inv' = inv
                             /\ unhandled' = unhandled
                             /\ proc' = proc
                             /\ saveInterval']_vars
    /\ [][AutoSave(TRUE) => sink' = "json" /\ file' = JSONstringify(Entries(Store))]_vars

\* the flow loaded at start is still in memory after a write tore the file
C23_Witness ==
    /\ boots = 1
    /\ proc = "up"
    /\ saveInterval
    /\ sink = "corrupt"
    /\ states[U1] # NoObj
    /\ heap[states[U1]].pluginName = "quiz"
    /\ unhandled = 0

\* C24: onShutdown stops the timer and persists once: when it returns the
\* timer is cleared, the document (storage permitting) is the in-memory map of
\* that moment, and nothing writes the file afterwards.
C24_ShutdownPersistsAndStopsTimer ==
    /\ [][\A ok \in BOOLEAN : OnShutdown(ok) => ~saveInterval' /\ Entries(Store') = Entries(Store)]_vars
    /\ [][OnShutdown(TRUE) => sink' = "json" /\ file' = JSONstringify(Entries(Store))]_vars
    /\ [][proc = "stopping" => file' = file /\ sink' = sink]_vars

C24_Witness ==
    /\ proc = "stopping"
    /\ ~saveInterval
    /\ sink = "json"
    /\ states[U1] # NoObj
    /\ heap[states[U1]].currentState = "end"
    /\ file = JSONstringify(Entries(Store))
    /\ file # CHOOSE f \in FirstImages : TRUE

\* C25: whenever the process exits on a path of its own (a termination signal,
\* `reiniciar`, `limparsessao`), a start on the file it leaves loads the map it
\* had at exit.  Stated for the exits that come from the two commands, over a
\* file no failed write has torn.
C25_EveryExitPersists ==
    [][Exit /\ proc = "up" /\ sink # "corrupt" /\ JsonPayloads(Store)
         => Entries(readStates(sink, file)) = Entries(Store)]_vars

\* C26: a timer persist writes the complete map of the moment it runs, which
\* lies between two StateManager operations also while a handler is suspended
\* at an await, and it changes nothing in the map.
C26_TimerWritesWholeMap ==
    [][\A ok \in BOOLEAN : AutoSave(ok) =>
          /\ states' = states
          /\ heap' = heap
          /\ ok => file' = JSONstringify(Entries(Store))]_vars

\* the document holds the flow a handler created, while that handler waits for
\* a send to settle
C26_Witness ==
    /\ \E i \in Slots : /\ inv[i].pc = "handler"
                         /\ inv[i].suspended
                         /\ inv[i].lastOp = "create"
    /\ states[U1] # NoObj
    /\ heap[states[U1]].pluginName = "q"
    /\ sink = "json"
    /\ file = JSONstringify(Entries(Store))

-----------------------------------------------------------------------------
(* Plugins *)

\* config.plugins: the plugin may be loaded
Eligible(name) ==
    /\ name \notin pm.disabled
    /\ pm.enabled = {} \/ name \in pm.enabled

\* C27: a plugin on the disabled list is never loaded, initialized or given
\* commands; with a non-empty enabled list only the plugins on it are.
C27_ConfigHonoured ==
    /\ \A i \in 1..Len(pm.plugins) : Eligible(pm.plugins[i])
    /\ \A i \in 1..Len(pm.initialized) : Eligible(pm.initialized[i])
    /\ \A k \in DOMAIN commands : PluginOf(commands[k]) # "core" => Eligible(PluginOf(commands[k]))

\* the candidates that pass import, construction and the shape checks
Passing(items) ==
    LET ok == {i \in 1..Len(items) : items[i].fault \notin LoadFaults} IN
    [n \in 1..Cardinality(ok) |->
        items[CHOOSE i \in ok : Cardinality({j \in ok : j <= i}) = n].name]

\* C28: a candidate whose import or construction throws, or that fails a shape
\* check, is left out and the loop goes on to the next candidate; initialize
\* and onShutdown are each called once on every loaded plugin, in load order,
\* whether or not an earlier call threw.
C28_PluginFailuresIsolated ==
    /\ [](pm.stage # "load" => pm.plugins = Passing(pm.items))
    /\ [](pm.stage \in {"collect", "shutdown"} => pm.initialized = pm.plugins)
    /\ [](pm.stage = "off" => pm.initialized = pm.plugins /\ pm.down = pm.plugins)

C28_Witness ==
    /\ pm.stage = "off"
    /\ pm.items[1].fault = "import"
    /\ pm.items[2].fault = "initialize"
    /\ pm.initialized = <<"form", "quiz">>
    /\ pm.down = <<"form", "quiz">>

\* the last plugin, in load order, that provides the name
LastProvider(plugins, k) ==
    plugins[CHOOSE i \in 1..Len(plugins) :
              /\ k \in DOMAIN PluginCommands(plugins[i])
              /\ \A j \in (i + 1)..Len(plugins) : k \notin DOMAIN PluginCommands(plugins[j])]

\* C29: the last write wins: a name that two plugins provide is collected with
\* the handler of the later plugin, and registering the collected commands
\* replaces the handler of every name that was registered before, a built-in
\* command included, and leaves the other names alone.
C29_LastWriteWins ==
    /\ [](\A k \in DOMAIN getAllCommands(pm.plugins) :
            getAllCommands(pm.plugins)[k]
              = PluginCommands(LastProvider(pm.plugins, k))[k])
    /\ [][pm.stage = "collect" /\ RegisterPluginCommands =>
            /\ DOMAIN commands' = DOMAIN commands \cup DOMAIN getAllCommands(pm.plugins)
            /\ \A k \in DOMAIN commands' :
                  commands'[k] = IF k \in DOMAIN getAllCommands(pm.plugins)
                                 THEN getAllCommands(pm.plugins)[k]
                                 ELSE commands[k]]_vars

C29_Witness ==
    /\ started
    /\ pm.plugins = <<"extra", "form", "quiz">>
    /\ commands[<<"estados">>] = "extra.estados"
    /\ commands[<<"q">>] = "quiz.start"
    /\ commands[<<"reiniciar">>] = "reiniciar"

-----------------------------------------------------------------------------
(* Administration *)

IsSubCommand(i, sub) ==
    /\ inv[i].h = "estados" /\ isOwner(Sender(i))
    /\ Len(inv[i].args) >= 1 /\ toLowerCase(inv[i].args[1]) = sub

\* C30: `estados listar` reports every user that has a state, whatever its
\* step; `estados limpartodos` leaves no user with a state and reports as many
\* cleared as had one.
C30_ListAndClearAllCoverEveryState ==
    [][\A i \in Slots :
         /\ (Estados(i) /\ IsSubCommand(i, "listar"))
              => inv'[i].listed = {u \in Users : states[u] # NoObj}
         /\ (Estados(i) /\ IsSubCommand(i, "limpartodos"))
              => /\ \A u \in Users : states'[u] = NoObj
                 /\ Cardinality(inv'[i].listed)
                      = Cardinality({u \in Users : states[u] # NoObj})]_vars

-----------------------------------------------------------------------------
(* MessageQueue properties *)

Waiting(q) == { q.queue[k] : k \in 1..Len(q.queue) }

Taken(q) == CHOOSE l \in q.loops : l.pc = "send" /\ l.message.id = q.sent[Len(q.sent)]

\* C31: whenever the queue takes its next message, no waiting message has a
\* higher priority, and none of the same priority was enqueued earlier
C31_TakesHighestThenOldest ==
    [][Len(mq'.sent) > Len(mq.sent) =>
         \A w \in Waiting(mq') :
            \/ w.priority < Taken(mq').message.priority
            \/ w.priority = Taken(mq').message.priority /\ w.id > Taken(mq').message.id]_vars

\* a later message of a higher tier has been taken ahead of an older one that
\* still waits, next to a younger one of its own tier
C31_Witness ==
    /\ Len(mq.sent) > 0
    /\ \E l \in mq.loops, w, v \in Waiting(mq) :
          /\ l.message.id = mq.sent[Len(mq.sent)]
          /\ w.id < l.message.id /\ w.priority < l.message.priority
          /\ v.id > l.message.id /\ v.priority = l.message.priority

\* C32: a message whose send fails stays scheduled for a later attempt
C32_FailedSendStaysScheduled ==
    [][\A l \in mq.loops :
          SendMessageSettles(l, FALSE) =>
             \/ l.message \in Waiting(mq')
             \/ \E k \in mq'.loops : k.message = l.message]_vars

\* C39: every message passed to enqueue is eventually handed to the socket
C39_EveryEnqueuedIsAttempted ==
    \A id \in 1..MaxEnqueue :
        [](mq.enqueued >= id => <>(\E k \in 1..Len(mq.sent) : mq.sent[k] = id))

\* C40: at most one processQueue loop exists, it exists exactly while
\* `processing` is set, and no message is handed to the socket twice
C40_SingleConsumer ==
    /\ Cardinality(mq.loops) <= 1
    /\ mq.processing <=> mq.loops # {}
    /\ \A j, k \in 1..Len(mq.sent) : mq.sent[j] = mq.sent[k] => j = k

\* enqueue was called while the loop was suspended at an await
C40_Witness ==
    /\ mq.loops # {}
    /\ Len(mq.queue) > 0
    /\ Len(mq.sent) >= 2

-----------------------------------------------------------------------------
(* Routing and form-flow properties *)

\* C33: a handler registered under state:<plugin>:<step> never runs as a command
C33_StepHandlersOnlyByContinuation ==
    \A i \in Slots :
        inv[i].route = "command" => ~(Len(inv[i].name) = 3 /\ inv[i].name[1] = "state")

\* C34: no inbound message is routed before the plugins' commands and step
\* handlers are registered
C34_NoRoutingBeforeRegistration ==
    [][(\E m \in Inbound : Receive(m)) => started]_vars

\* C35: a message of participant B, who starts no flow, is never step input to
\* a flow and leaves every stored state as it was
C35_StatePerParticipant ==
    [][\A e \in FlowEvents :
          (Upsert(e) /\ e[1].participant = ParticipantB) =>
             /\ inv'[FreeSlot].route # "state"
             /\ \A u \in Users :
                   states[u] # NoObj =>
                      states'[u] = states[u] /\ heap'[states[u]] = heap[states[u]]]_vars

\* C36: every message of an event is counted and routed
C36_EveryMessageRouted ==
    [][\A e \in FlowEvents : Upsert(e) => messagesProcessed' = messagesProcessed + Len(e)]_vars

\* the step handler h takes the reply of invocation i as step input
StepRuns(i, h) == FormStep(i) /\ inv[i].h = h /\ inv[i].route = "state"

\* a reply that is neither a command nor the cancel keyword
Ordinary(m) == ~m.pfx /\ ~lowerEquals(m, FALSE, "cancelar")

FormChain(step) ==
    CASE step = "name" -> {"name", "email"}
      [] step = "email" -> {"email", "age"}
      [] step = "age" -> {"age", "confirm"}
      [] OTHER -> {step}

Transitions(guard(_)) ==
    \A i \in Slots :
        LET u == Sender(i)
            m == inv[i].msg
            old == heap[states[u]]
            new == heap'[states'[u]]
        IN /\ (StepRuns(i, "form.name") /\ guard(m) /\ length(m) >= 3) =>
                 /\ states'[u] # NoObj
                 /\ new.currentState = "email"
                 /\ "name" \in DOMAIN new.data /\ new.data.name = At(Head(m.words))
           /\ (StepRuns(i, "form.email") /\ guard(m) /\ (~includes(m, "@") \/ ~includes(m, "."))) =>
                 /\ states'[u] # NoObj
                 /\ new.currentState = "email"
                 /\ new.data = old.data
           /\ (StepRuns(i, "form.email") /\ guard(m) /\ includes(m, "@") /\ includes(m, ".")) =>
                 /\ states'[u] # NoObj
                 /\ new.currentState = "age"
                 /\ "name" \in DOMAIN new.data /\ new.data.name = old.data.name
                 /\ new.data.email = At(Head(m.words))
           /\ (FormStep(i) /\ inv[i].route = "state") =>
                 \/ states'[u] = NoObj
                 \/ new.currentState \in FormChain(old.currentState)

C38_CancelAlwaysClears ==
    [][\A i \in Slots :
          ( /\ FormStep(i) /\ inv[i].route = "state"
            /\ \/ lowerEquals(inv[i].msg, FALSE, "cancelar")
               \/ lowerEquals(inv[i].msg, TRUE, "cancelar") )
          => states'[Sender(i)] = NoObj]_vars

====
